---- MODULE Spec2Model ----
(***************************************************************************)
(* Reading List Service: the in-memory variant (app_step1_inmemory.py) and *)
(* the durable variant (app.py), run side by side on one sequence of HTTP  *)
(* requests with a shared logical clock.                                   *)
(*                                                                         *)
(* JSON values are tagged records, so that "key absent", null, a string    *)
(* and a number stay distinct.  Text is a sequence of one-character        *)
(* strings, so that str.strip() is computed and not assumed.  A rating is  *)
(* a number of hundredths (314 is 3.14), so that DECIMAL(2,1) rounds.      *)
(*                                                                         *)
(* In the first three specifications requests are handled one at a time.   *)
(* The clock advances with every request, so no two books share a         *)
(* date_added there.  Both stores start empty                              *)
(* (the module globals as defined, the table as init_database creates it); *)
(* the sample data of the __main__ blocks is not loaded.  title, author    *)
(* and notes, where a payload has them, are JSON strings.                  *)
(*                                                                         *)
(* Three specifications share the actions and differ in the payloads they  *)
(* draw and in the number of requests: Spec (every payload, valid or not), *)
(* SpecFields (every subset of the book fields, valid values) and SpecSeq  *)
(* (text fields only, long runs).                                          *)
(*                                                                         *)
(* Two more specifications run one variant alone with several requests at  *)
(* the same time, each on its own worker thread.  SpecConn cuts the        *)
(* durable handlers at their database statements and lets                  *)
(* psycopg2.connect or cursor.execute raise; it counts the connections a   *)
(* handler opened and did not close (what the interpreter reclaims later   *)
(* is not counted as a close).  SpecThreads cuts the in-memory             *)
(* add_new_book where it reads and writes the module globals.              *)
(***************************************************************************)
EXTENDS Integers, Sequences, FiniteSets, TLC

\* ------------------------------------------------------------------ bounds
\* Requests handled in one run of the rich-payload specification Spec.
MaxRequests == 2
\* Requests handled in one run of the field specification SpecFields.
MaxFieldRequests == 3
\* Requests handled in one run of the long-sequence specification SpecSeq.
MaxSeqRequests == 5
\* Requests handled in one run of the statement-level specification SpecConn.
MaxConnRequests == 3
\* Creates handled in one run of the in-memory thread specification SpecThreads.
MaxThreadRequests == 3
\* Requests that are handled at the same time.
MaxThreads == 2

\* ------------------------------------------------------------- JSON values
Absent == [k |-> "absent"]
Null == [k |-> "null"]
Str(s) == [k |-> "str", s |-> s]
Num(n) == [k |-> "num", n |-> n]

SP == " "

RECURSIVE lstrip(_)
lstrip(s) == IF s /= <<>> /\ Head(s) = SP THEN lstrip(Tail(s)) ELSE s

RECURSIVE rstrip(_)
rstrip(s) ==
    IF s /= <<>> /\ s[Len(s)] = SP THEN rstrip(SubSeq(s, 1, Len(s) - 1)) ELSE s

\* str.strip() on a JSON string value.
strip(v) == Str(rstrip(lstrip(v.s)))

\* Python truthiness of a JSON value (None, "" and 0 are falsy).
truthy(v) ==
    CASE v.k = "str" -> v.s /= <<>>
      [] v.k = "num" -> v.n /= 0
      [] OTHER -> FALSE

Digits == {"0", "1", "2", "3", "4", "5", "6", "7", "8", "9"}

\* float(v): ok is FALSE where Python raises ValueError or TypeError.
to_float(v) ==
    CASE v.k = "num" -> [ok |-> TRUE, n |-> v.n]
      [] v.k = "str" ->
            LET t == rstrip(lstrip(v.s)) IN
            IF Len(t) = 1 /\ t[1] \in Digits
            THEN [ok |-> TRUE,
                  n |-> 100 * (CHOOSE d \in 0..9 : ToString(d) = t[1])]
            ELSE [ok |-> FALSE, n |-> 0]
      [] OTHER -> [ok |-> FALSE, n |-> 0]

RatingMin == 100
RatingMax == 500

valid_statuses == {Str("want-to-read"), Str("reading"), Str("completed")}

Fields == {"title", "author", "status", "rating", "notes"}

EmptyPayload ==
    [title |-> Absent, author |-> Absent, status |-> Absent,
     rating |-> Absent, notes |-> Absent, extra |-> Absent]

\* 'f' in data
has(data, f) == data[f] /= Absent

\* data.get(f, default)
get(data, f, default) == IF has(data, f) THEN data[f] ELSE default

\* not data, for a parsed JSON object
is_empty(data) == \A f \in DOMAIN data : data[f] = Absent

\* ---------------------------------------------------------------- responses
Response(status, error, books, total) ==
    [status |-> status, error |-> error, books |-> books, total |-> total]

NoResponse == Response(0, "", <<>>, 0)

Book(id, title, author, status, rating, notes, added, updated) ==
    [id |-> id, title |-> title, author |-> author, status |-> status,
     rating |-> rating, notes |-> notes,
     date_added |-> added, date_updated |-> updated]

\* ------------------------------------------------ in-memory variant (step 1)
\* Index of the first book with this id in the list, 0 for None.
mem_find_book_by_id(storage, book_id) ==
    IF \E i \in 1..Len(storage) : storage[i].id = book_id
    THEN CHOOSE i \in 1..Len(storage) :
            /\ storage[i].id = book_id
            /\ \A j \in 1..(i - 1) : storage[j].id /= book_id
    ELSE 0

mem_validate_book_data(data) ==
    IF ~truthy(get(data, "title", Null))
    THEN [ok |-> FALSE, msg |-> "Title is required"]
    ELSE IF ~truthy(get(data, "author", Null))
    THEN [ok |-> FALSE, msg |-> "Author is required"]
    ELSE IF has(data, "status") /\ data.status \notin valid_statuses
    THEN [ok |-> FALSE, msg |-> "Status must be one of"]
    ELSE IF has(data, "rating") /\ ~to_float(data.rating).ok
    THEN [ok |-> FALSE, msg |-> "Rating must be a number"]
    ELSE IF /\ has(data, "rating")
            /\ \/ to_float(data.rating).n < RatingMin
               \/ to_float(data.rating).n > RatingMax
    THEN [ok |-> FALSE, msg |-> "Rating must be between 1 and 5"]
    ELSE [ok |-> TRUE, msg |-> ""]

\* A handler's outcome: the module globals after it, and its response.
MemOut(storage, next_id, resp) ==
    [books_storage |-> storage, next_book_id |-> next_id, resp |-> resp]

mem_health_check(storage, next_id) ==
    MemOut(storage, next_id, Response(200, "", <<>>, Len(storage)))

mem_get_all_books(storage, next_id) ==
    MemOut(storage, next_id, Response(200, "", storage, Len(storage)))

mem_get_book_by_id(storage, next_id, book_id) ==
    LET i == mem_find_book_by_id(storage, book_id) IN
    IF i = 0
    THEN MemOut(storage, next_id, Response(404, "Book not found", <<>>, 0))
    ELSE MemOut(storage, next_id, Response(200, "", <<storage[i]>>, 0))

\* Mutant: the counter is not advanced.
mem_next_id_stuck(next_id) == next_id

\* next_book_id += 1
mem_next_id(next_id) == next_id + 1

mem_add_new_book(storage, next_id, body, now) ==
    LET data == body.data IN
    IF ~body.ok
    THEN MemOut(storage, next_id, Response(400, "Invalid JSON", <<>>, 0))
    ELSE IF is_empty(data)
    THEN MemOut(storage, next_id, Response(400, "No data provided", <<>>, 0))
    ELSE IF ~mem_validate_book_data(data).ok
    THEN MemOut(storage, next_id,
                Response(400, mem_validate_book_data(data).msg, <<>>, 0))
    ELSE LET new_book ==
                Book(next_id, data.title, data.author,
                     get(data, "status", Str("want-to-read")),
                     get(data, "rating", Null),
                     get(data, "notes", Str(<<>>)),
                     now, now)
         IN MemOut(Append(storage, new_book), mem_next_id(next_id),
                   Response(201, "", <<new_book>>, 0))

\* Mutant: PUT as a replace, an omitted notes falls back to the create default.
mem_apply_update_replace(book, data, now) ==
    [book EXCEPT
        !.title = get(data, "title", book.title),
        !.author = get(data, "author", book.author),
        !.status = get(data, "status", book.status),
        !.rating = get(data, "rating", book.rating),
        !.notes = get(data, "notes", Str(<<>>)),
        !.date_updated = now]

\* The "Update fields" block and the timestamp refresh of update_book.
mem_apply_update(book, data, now) ==
    [book EXCEPT
        !.title = get(data, "title", book.title),
        !.author = get(data, "author", book.author),
        !.status = get(data, "status", book.status),
        !.rating = get(data, "rating", book.rating),
        !.notes = get(data, "notes", book.notes),
        !.date_updated = now]

\* Mutant: the body is parsed and checked before the book is looked up.
mem_update_book_parse_first(storage, next_id, book_id, body, now) ==
    LET i == mem_find_book_by_id(storage, book_id)
        data == body.data
    IN
    IF ~body.ok
    THEN MemOut(storage, next_id, Response(400, "Invalid JSON", <<>>, 0))
    ELSE IF is_empty(data)
    THEN MemOut(storage, next_id, Response(400, "No data provided", <<>>, 0))
    ELSE IF i = 0
    THEN MemOut(storage, next_id, Response(404, "Book not found", <<>>, 0))
    ELSE LET updated == mem_apply_update(storage[i], data, now) IN
         MemOut([storage EXCEPT ![i] = updated], next_id,
                Response(200, "", <<updated>>, 0))

mem_update_book(storage, next_id, book_id, body, now) ==
    LET i == mem_find_book_by_id(storage, book_id)
        data == body.data
    IN
    IF i = 0
    THEN MemOut(storage, next_id, Response(404, "Book not found", <<>>, 0))
    ELSE IF ~body.ok
    THEN MemOut(storage, next_id, Response(400, "Invalid JSON", <<>>, 0))
    ELSE IF is_empty(data)
    THEN MemOut(storage, next_id, Response(400, "No data provided", <<>>, 0))
    ELSE LET book == storage[i]
             merged == [data EXCEPT
                           !.title = get(data, "title", book.title),
                           !.author = get(data, "author", book.author)]
             checked == has(data, "title") \/ has(data, "author")
         IN
         IF checked /\ ~mem_validate_book_data(merged).ok
         THEN MemOut(storage, next_id,
                     Response(400, mem_validate_book_data(merged).msg, <<>>, 0))
         ELSE LET updated == mem_apply_update(book, data, now) IN
              MemOut([storage EXCEPT ![i] = updated], next_id,
                     Response(200, "", <<updated>>, 0))

\* Mutant: list.pop() in place of list.remove(x), the last element goes.
list_pop(storage, x) == SubSeq(storage, 1, Len(storage) - 1)

\* list.remove(x): drops the first element equal to x.
list_remove(storage, x) ==
    LET i == CHOOSE j \in 1..Len(storage) :
                /\ storage[j] = x
                /\ \A l \in 1..(j - 1) : storage[l] /= x
    IN SubSeq(storage, 1, i - 1) \o SubSeq(storage, i + 1, Len(storage))

mem_delete_book(storage, next_id, book_id) ==
    LET i == mem_find_book_by_id(storage, book_id) IN
    IF i = 0
    THEN MemOut(storage, next_id, Response(404, "Book not found", <<>>, 0))
    ELSE MemOut(list_remove(storage, storage[i]), next_id,
                Response(200, "Book deleted successfully", <<storage[i]>>, 0))

\* ------------------------------------------------------- durable variant
\* The books table is a set of rows; books_id_seq holds the next SERIAL value.

\* A value stored in a DECIMAL(2,1) column: one fractional digit, rounded
\* half away from zero; NULL stays NULL.
decimal_2_1(v) ==
    IF v.k \in {"null", "absent"}
    THEN Null
    ELSE Num(((to_float(v).n + 5) \div 10) * 10)

\* CHECK (rating >= 1 AND rating <= 5); a NULL rating passes.
rating_check(row) ==
    row.rating = Null \/ (row.rating.n >= RatingMin /\ row.rating.n <= RatingMax)

\* SELECT * FROM books WHERE id = %s; fetchone()
db_find_book_by_id(rows, book_id) ==
    IF \E r \in rows : r.id = book_id
    THEN [found |-> TRUE, book |-> CHOOSE r \in rows : r.id = book_id]
    ELSE [found |-> FALSE, book |-> Null]

db_validate_book_data(data) ==
    IF is_empty(data)
    THEN [ok |-> FALSE, msg |-> "No data provided"]
    ELSE IF ~has(data, "title") \/ ~truthy(strip(data.title))
    THEN [ok |-> FALSE, msg |-> "Missing required field: title"]
    ELSE IF ~has(data, "author") \/ ~truthy(strip(data.author))
    THEN [ok |-> FALSE, msg |-> "Missing required field: author"]
    ELSE IF has(data, "status") /\ data.status \notin valid_statuses
    THEN [ok |-> FALSE, msg |-> "Invalid status"]
    ELSE IF has(data, "rating") /\ data.rating /= Null /\ ~to_float(data.rating).ok
    THEN [ok |-> FALSE, msg |-> "Rating must be a number"]
    ELSE IF /\ has(data, "rating")
            /\ data.rating /= Null
            /\ \/ to_float(data.rating).n < RatingMin
               \/ to_float(data.rating).n > RatingMax
    THEN [ok |-> FALSE, msg |-> "Rating must be between 1 and 5"]
    ELSE [ok |-> TRUE, msg |-> "Valid"]

DbOut(rows, seq, resp) == [db_books |-> rows, books_id_seq |-> seq, resp |-> resp]

InternalError == Response(500, "Internal server error", <<>>, 0)

\* ORDER BY date_added DESC.  Rows never share a date_added here (the clock
\* advances with every request), so the order is determined.
RECURSIVE order_by_date_added_desc(_)
order_by_date_added_desc(rows) ==
    IF rows = {}
    THEN <<>>
    ELSE LET newest == CHOOSE r \in rows :
                          \A q \in rows : q.date_added <= r.date_added
         IN <<newest>> \o order_by_date_added_desc(rows \ {newest})

db_health_check(rows, seq) ==
    DbOut(rows, seq, Response(200, "", <<>>, Cardinality(rows)))

db_get_all_books(rows, seq) ==
    DbOut(rows, seq,
          Response(200, "", order_by_date_added_desc(rows), Cardinality(rows)))

db_get_book_by_id(rows, seq, book_id) ==
    LET f == db_find_book_by_id(rows, book_id) IN
    IF ~f.found
    THEN DbOut(rows, seq, Response(404, "Book not found", <<>>, 0))
    ELSE DbOut(rows, seq, Response(200, "", <<f.book>>, 0))

\* nextval('books_id_seq'): the value after the one just handed out.
db_nextval(seq) == seq + 1

db_add_new_book(rows, seq, body, now) ==
    LET data == body.data IN
    IF ~body.ok
    THEN DbOut(rows, seq, InternalError)
    ELSE IF ~db_validate_book_data(data).ok
    THEN DbOut(rows, seq, Response(400, db_validate_book_data(data).msg, <<>>, 0))
    ELSE LET new_book ==
                Book(seq, strip(data.title), strip(data.author),
                     get(data, "status", Str("want-to-read")),
                     decimal_2_1(get(data, "rating", Null)),
                     strip(get(data, "notes", Str(<<>>))),
                     now, now)
         IN
         IF ~rating_check(new_book)
         THEN DbOut(rows, db_nextval(seq), InternalError)
         ELSE DbOut(rows \cup {new_book}, db_nextval(seq),
                    Response(201, "Book added successfully", <<new_book>>, 0))

\* The columns the dynamic UPDATE statement sets (update_fields, without the
\* timestamp that is always appended).
db_update_fields(data) ==
    {f \in {"title", "author"} : has(data, f) /\ truthy(strip(data[f]))}
        \cup {f \in {"status", "rating", "notes"} : has(data, f)}

\* UPDATE books SET ... , date_updated = CURRENT_TIMESTAMP ... RETURNING *
db_apply_update(book, data, now) ==
    LET set == db_update_fields(data) IN
    [book EXCEPT
        !.title = IF "title" \in set THEN strip(data.title) ELSE book.title,
        !.author = IF "author" \in set THEN strip(data.author) ELSE book.author,
        !.status = IF "status" \in set THEN data.status ELSE book.status,
        !.rating = IF "rating" \in set THEN decimal_2_1(data.rating) ELSE book.rating,
        !.notes = IF "notes" \in set THEN strip(data.notes) ELSE book.notes,
        !.date_updated = now]

db_update_book(rows, seq, book_id, body, now) ==
    LET f == db_find_book_by_id(rows, book_id)
        data == body.data
    IN
    IF ~f.found
    THEN DbOut(rows, seq, Response(404, "Book not found", <<>>, 0))
    ELSE IF ~body.ok
    THEN DbOut(rows, seq, InternalError)
    ELSE IF is_empty(data)
    THEN DbOut(rows, seq, Response(400, "No data provided", <<>>, 0))
    ELSE IF has(data, "status") /\ data.status \notin valid_statuses
    THEN DbOut(rows, seq, Response(400, "Invalid status", <<>>, 0))
    ELSE IF has(data, "rating") /\ data.rating /= Null /\ ~to_float(data.rating).ok
    THEN DbOut(rows, seq, Response(400, "Rating must be a number", <<>>, 0))
    ELSE IF /\ has(data, "rating")
            /\ data.rating /= Null
            /\ \/ to_float(data.rating).n < RatingMin
               \/ to_float(data.rating).n > RatingMax
    THEN DbOut(rows, seq, Response(400, "Rating must be between 1 and 5", <<>>, 0))
    ELSE IF db_update_fields(data) = {}
    THEN DbOut(rows, seq, Response(400, "No valid fields to update", <<>>, 0))
    ELSE LET updated == db_apply_update(f.book, data, now) IN
         IF ~rating_check(updated)
         THEN DbOut(rows, seq, InternalError)
         ELSE DbOut((rows \ {f.book}) \cup {updated}, seq,
                    Response(200, "Book updated successfully", <<updated>>, 0))

db_delete_book(rows, seq, book_id) ==
    LET f == db_find_book_by_id(rows, book_id) IN
    IF ~f.found
    THEN DbOut(rows, seq, Response(404, "Book not found", <<>>, 0))
    ELSE DbOut({r \in rows : r.id /= book_id}, seq,
               Response(200, "Book deleted successfully", <<f.book>>, 0))

\* ------------------------------ durable variant, statement by statement
\* Each handler is cut at its database statements, so that requests handled
\* at the same time interleave there, and each statement is given a backend
\* fault: none, psycopg2.connect raises, or cursor.execute raises.
Faults == {"none", "connect", "execute"}

\* What one statement-level step of a handler gives: the table and sequence
\* after it, the response (NoResponse if the handler goes on), the connections
\* it opened and did not close, whether the fault struck, and what the write
\* statement matched ("none" if no write ran).
ConnOut(rows, seq, resp, unclosed, hit, write) ==
    [db_books |-> rows, books_id_seq |-> seq, resp |-> resp,
     unclosed |-> unclosed, hit |-> hit, write |-> write]

\* find_book_by_id: a psycopg2.Error of connect or execute is caught and None
\* is returned; after a failed execute the connection is not closed.
conn_find_book_by_id(rows, book_id, fault) ==
    IF fault = "connect"
    THEN [book |-> Null, unclosed |-> 0]
    ELSE IF fault = "execute"
    THEN [book |-> Null, unclosed |-> 1]
    ELSE [book |-> db_find_book_by_id(rows, book_id).book, unclosed |-> 0]

Unhealthy == Response(500, "Database connection failed", <<>>, 0)

conn_health_check(rows, seq, fault) ==
    IF fault = "connect"
    THEN ConnOut(rows, seq, Unhealthy, 0, TRUE, "none")
    ELSE IF fault = "execute"
    THEN ConnOut(rows, seq, Unhealthy, 1, TRUE, "none")
    ELSE ConnOut(rows, seq, db_health_check(rows, seq).resp, 0, FALSE, "none")

conn_get_all_books(rows, seq, fault) ==
    IF fault = "connect"
    THEN ConnOut(rows, seq, InternalError, 0, TRUE, "none")
    ELSE IF fault = "execute"
    THEN ConnOut(rows, seq, InternalError, 1, TRUE, "none")
    ELSE ConnOut(rows, seq, db_get_all_books(rows, seq).resp, 0, FALSE, "none")

conn_get_book_by_id(rows, seq, book_id, fault) ==
    LET f == conn_find_book_by_id(rows, book_id, fault) IN
    IF f.book = Null
    THEN ConnOut(rows, seq, Response(404, "Book not found", <<>>, 0),
                 f.unclosed, fault /= "none", "none")
    ELSE ConnOut(rows, seq, Response(200, "", <<f.book>>, 0), 0, FALSE, "none")

conn_add_new_book(rows, seq, body, now, fault) ==
    LET data == body.data IN
    IF ~body.ok
    THEN ConnOut(rows, seq, InternalError, 0, FALSE, "none")
    ELSE IF ~db_validate_book_data(data).ok
    THEN ConnOut(rows, seq, Response(400, db_validate_book_data(data).msg, <<>>, 0),
                 0, FALSE, "none")
    ELSE IF fault = "connect"
    THEN ConnOut(rows, seq, InternalError, 0, TRUE, "none")
    ELSE IF fault = "execute"
    THEN ConnOut(rows, seq, InternalError, 1, TRUE, "none")
    ELSE LET out == db_add_new_book(rows, seq, body, now) IN
         ConnOut(out.db_books, out.books_id_seq, out.resp,
                 IF out.resp.status = 201 THEN 0 ELSE 1, FALSE,
                 IF out.resp.status = 201 THEN "hit" ELSE "none")

\* update_book up to and including its validation: the lookup statement, then
\* the body.  pc "update" says the handler goes on to its UPDATE statement.
conn_update_book_lookup(rows, book_id, body, fault) ==
    LET f == conn_find_book_by_id(rows, book_id, fault)
        data == body.data
        Stop(resp) == [pc |-> "done", book |-> f.book, resp |-> resp,
                       unclosed |-> f.unclosed, hit |-> fault /= "none"]
    IN
    IF f.book = Null
    THEN Stop(Response(404, "Book not found", <<>>, 0))
    ELSE IF ~body.ok
    THEN Stop(InternalError)
    ELSE IF is_empty(data)
    THEN Stop(Response(400, "No data provided", <<>>, 0))
    ELSE IF has(data, "status") /\ data.status \notin valid_statuses
    THEN Stop(Response(400, "Invalid status", <<>>, 0))
    ELSE IF has(data, "rating") /\ data.rating /= Null /\ ~to_float(data.rating).ok
    THEN Stop(Response(400, "Rating must be a number", <<>>, 0))
    ELSE IF /\ has(data, "rating")
            /\ data.rating /= Null
            /\ \/ to_float(data.rating).n < RatingMin
               \/ to_float(data.rating).n > RatingMax
    THEN Stop(Response(400, "Rating must be between 1 and 5", <<>>, 0))
    ELSE [pc |-> "update", book |-> f.book, resp |-> NoResponse,
          unclosed |-> 0, hit |-> FALSE]

\* update_book from get_db_connection on.  UPDATE ... WHERE id = %s RETURNING *
\* works on the row as it is now; if no row has the id, fetchone() gives None,
\* the connection is committed and closed, and dict(None) raises TypeError.
conn_update_book_write(rows, seq, book_id, data, now, fault) ==
    IF fault = "connect"
    THEN ConnOut(rows, seq, InternalError, 0, TRUE, "none")
    ELSE IF db_update_fields(data) = {}
    THEN ConnOut(rows, seq, Response(400, "No valid fields to update", <<>>, 0),
                 0, FALSE, "none")
    ELSE IF fault = "execute"
    THEN ConnOut(rows, seq, InternalError, 1, TRUE, "none")
    ELSE IF ~db_find_book_by_id(rows, book_id).found
    THEN ConnOut(rows, seq, InternalError, 0, FALSE, "miss")
    ELSE LET row == db_find_book_by_id(rows, book_id).book
             updated == db_apply_update(row, data, now)
         IN
         IF ~rating_check(updated)
         THEN ConnOut(rows, seq, InternalError, 1, FALSE, "none")
         ELSE ConnOut((rows \ {row}) \cup {updated}, seq,
                      Response(200, "Book updated successfully", <<updated>>, 0),
                      0, FALSE, "hit")

\* delete_book up to its existence check.  pc "delete" says the handler goes
\* on to its DELETE statement.
conn_delete_book_lookup(rows, book_id, fault) ==
    LET f == conn_find_book_by_id(rows, book_id, fault) IN
    IF f.book = Null
    THEN [pc |-> "done", book |-> f.book,
          resp |-> Response(404, "Book not found", <<>>, 0),
          unclosed |-> f.unclosed, hit |-> fault /= "none"]
    ELSE [pc |-> "delete", book |-> f.book, resp |-> NoResponse,
          unclosed |-> 0, hit |-> FALSE]

\* delete_book from get_db_connection on.  DELETE ... WHERE id = %s succeeds
\* whether or not a row has the id; the response carries the book looked up.
conn_delete_book_write(rows, seq, book_id, book, fault) ==
    IF fault = "connect"
    THEN ConnOut(rows, seq, InternalError, 0, TRUE, "none")
    ELSE IF fault = "execute"
    THEN ConnOut(rows, seq, InternalError, 1, TRUE, "none")
    ELSE ConnOut({r \in rows : r.id /= book_id}, seq,
                 Response(200, "Book deleted successfully", <<book>>, 0),
                 0, FALSE,
                 IF db_find_book_by_id(rows, book_id).found THEN "hit" ELSE "miss")

\* ------------------------------------------------------------ request inputs
TitleValues == {Str(<<>>), Str(<<SP>>), Str(<<SP, "a">>)}
AuthorValues == {Str(<<SP>>), Str(<<"b">>)}
StatusValues == {Str("reading"), Str("bogus")}
RatingValues == {Null, Num(314), Num(600)}
NotesValues == {Str(<<"n", SP>>)}
ExtraValues == {Num(1)}

\* Parsed JSON objects, from {} to all six keys.
Payloads ==
    [title : TitleValues \cup {Absent}, author : AuthorValues \cup {Absent},
     status : StatusValues \cup {Absent}, rating : RatingValues \cup {Absent},
     notes : NotesValues \cup {Absent}, extra : ExtraValues \cup {Absent}]

\* The payloads of the field specification: every subset of the five book
\* fields, each with a value both variants accept.
FieldPayloads ==
    [title : {Str(<<SP, "a">>), Absent}, author : {Str(<<"b">>), Absent},
     status : {Str("reading"), Absent}, rating : {Num(314), Absent},
     notes : {Str(<<"n", SP>>), Absent}, extra : {Absent}]

\* The payloads of the long-sequence specification: text fields only.
SeqPayloads ==
    [title : {Str(<<SP, "a">>), Absent}, author : {Str(<<"b">>), Absent},
     status : {Absent}, rating : {Absent},
     notes : {Str(<<"n", SP>>), Absent}, extra : {Absent}]

\* A request body: one that request.get_json() rejects, or a parsed object.
Malformed == [ok |-> FALSE, data |-> EmptyPayload]
Bodies(P) == {Malformed} \cup {[ok |-> TRUE, data |-> d] : d \in P}

\* ------------------------------------------------------------------- state
VARIABLES
    books_storage,   \* in-memory: the list of books
    next_book_id,    \* in-memory: the id counter
    db_books,        \* durable: the rows of table books
    books_id_seq,    \* durable: next value of the SERIAL sequence
    clock,           \* logical time, read by both variants
    req,             \* the request whose responses are pending, or NoRequest
    mem_resp,        \* the in-memory variant's response to it
    db_resp,         \* the durable variant's response to it
    mem_issued,      \* history: ids returned by successful creates, in order
    db_issued,
    mem_deleted,     \* history: ids whose delete succeeded
    db_deleted,
    db_threads,      \* durable: the request each worker thread is handling
    db_connections,  \* durable: connections opened and not closed
    mem_threads      \* in-memory: the create each worker thread is handling

vars ==
    <<books_storage, next_book_id, db_books, books_id_seq, clock, req,
      mem_resp, db_resp, mem_issued, db_issued, mem_deleted, db_deleted,
      db_threads, db_connections, mem_threads>>

Threads == 1..MaxThreads

\* A worker thread of the durable variant is idle, or it holds a request:
\* where its handler stands (at its write statement, or done with the response
\* in hand), the request, the book its lookup returned, and the history of
\* this request: the fault that struck ("lookup": in find_book_by_id,
\* "statement": in the handler's own connection block), whether the id was
\* stored when the lookup ran, what the write matched, and the connections
\* opened and not closed.
DbIdle == [pc |-> "idle"]

\* A worker thread of the in-memory variant is idle, or it is inside
\* add_new_book: where it stands (new_book built, appended, next_book_id read,
\* done), its new_book, the value of next_book_id it read for the increment,
\* and its response.
MemIdle == [pc |-> "idle"]

NoRequest == [op |-> "none", id |-> 0, body |-> Malformed]

Init ==
    /\ books_storage = <<>>
    /\ next_book_id = 1
    /\ db_books = {}
    /\ books_id_seq = 1
    /\ clock = 1
    /\ req = NoRequest
    /\ mem_resp = NoResponse
    /\ db_resp = NoResponse
    /\ mem_issued = <<>>
    /\ db_issued = <<>>
    /\ mem_deleted = {}
    /\ db_deleted = {}
    /\ db_threads = [t \in Threads |-> DbIdle]
    /\ db_connections = 0
    /\ mem_threads = [t \in Threads |-> MemIdle]

\* Ids a path may name: every id handed out so far and one never handed out.
Ids == 1..(IF next_book_id >= books_id_seq THEN next_book_id ELSE books_id_seq)

Issued(issued, resp) ==
    IF resp.status = 201 THEN Append(issued, resp.books[1].id) ELSE issued

Deleted(deleted, r, resp) ==
    IF r.op = "delete" /\ resp.status = 200 THEN deleted \cup {r.id} ELSE deleted

\* Requests are handled one after the other: both variants handle request r
\* at time clock; mo and do are their outcomes.
Handled(r, mo, do) ==
    /\ req' = r
    /\ clock' = clock + 1
    /\ books_storage' = mo.books_storage
    /\ next_book_id' = mo.next_book_id
    /\ mem_resp' = mo.resp
    /\ db_books' = do.db_books
    /\ books_id_seq' = do.books_id_seq
    /\ db_resp' = do.resp
    /\ mem_issued' = Issued(mem_issued, mo.resp)
    /\ db_issued' = Issued(db_issued, do.resp)
    /\ mem_deleted' = Deleted(mem_deleted, r, mo.resp)
    /\ db_deleted' = Deleted(db_deleted, r, do.resp)
    /\ UNCHANGED <<db_threads, db_connections, mem_threads>>

HealthCheck ==
    /\ req = NoRequest
    /\ Handled([op |-> "health", id |-> 0, body |-> Malformed],
            mem_health_check(books_storage, next_book_id),
            db_health_check(db_books, books_id_seq))

GetAllBooks ==
    /\ req = NoRequest
    /\ Handled([op |-> "list", id |-> 0, body |-> Malformed],
            mem_get_all_books(books_storage, next_book_id),
            db_get_all_books(db_books, books_id_seq))

GetBookById(book_id) ==
    /\ req = NoRequest
    /\ Handled([op |-> "get", id |-> book_id, body |-> Malformed],
            mem_get_book_by_id(books_storage, next_book_id, book_id),
            db_get_book_by_id(db_books, books_id_seq, book_id))

AddNewBook(body) ==
    /\ req = NoRequest
    /\ Handled([op |-> "create", id |-> 0, body |-> body],
            mem_add_new_book(books_storage, next_book_id, body, clock),
            db_add_new_book(db_books, books_id_seq, body, clock))

UpdateBook(book_id, body) ==
    /\ req = NoRequest
    /\ Handled([op |-> "update", id |-> book_id, body |-> body],
            mem_update_book(books_storage, next_book_id, book_id, body, clock),
            db_update_book(db_books, books_id_seq, book_id, body, clock))

DeleteBook(book_id) ==
    /\ req = NoRequest
    /\ Handled([op |-> "delete", id |-> book_id, body |-> Malformed],
            mem_delete_book(books_storage, next_book_id, book_id),
            db_delete_book(db_books, books_id_seq, book_id))

\* The responses go out; the next request can be handled.
Respond ==
    /\ req /= NoRequest
    /\ req' = NoRequest
    /\ mem_resp' = NoResponse
    /\ db_resp' = NoResponse
    /\ UNCHANGED <<books_storage, next_book_id, db_books, books_id_seq, clock,
                   mem_issued, db_issued, mem_deleted, db_deleted,
                   db_threads, db_connections, mem_threads>>

AllBodies == Bodies(Payloads)
FieldBodies == Bodies(FieldPayloads)
SeqBodies == Bodies(SeqPayloads)

\* Any payload, short runs.
Next ==
    \/ clock <= MaxRequests /\ HealthCheck
    \/ clock <= MaxRequests /\ GetAllBooks
    \/ clock <= MaxRequests /\ \E i \in Ids : GetBookById(i)
    \/ clock <= MaxRequests /\ \E b \in AllBodies : AddNewBook(b)
    \/ clock <= MaxRequests /\ \E i \in Ids, b \in AllBodies : UpdateBook(i, b)
    \/ clock <= MaxRequests /\ \E i \in Ids : DeleteBook(i)
    \/ Respond

Spec == Init /\ [][Next]_vars

\* Valid payloads over every subset of the book fields, runs of medium length.
NextFields ==
    \/ clock <= MaxFieldRequests /\ HealthCheck
    \/ clock <= MaxFieldRequests /\ GetAllBooks
    \/ clock <= MaxFieldRequests /\ \E i \in Ids : GetBookById(i)
    \/ clock <= MaxFieldRequests /\ \E b \in FieldBodies : AddNewBook(b)
    \/ clock <= MaxFieldRequests /\ \E i \in Ids, b \in FieldBodies : UpdateBook(i, b)
    \/ clock <= MaxFieldRequests /\ \E i \in Ids : DeleteBook(i)
    \/ Respond

SpecFields == Init /\ [][NextFields]_vars

\* Text payloads, long runs.
NextSeq ==
    \/ clock <= MaxSeqRequests /\ HealthCheck
    \/ clock <= MaxSeqRequests /\ GetAllBooks
    \/ clock <= MaxSeqRequests /\ \E i \in Ids : GetBookById(i)
    \/ clock <= MaxSeqRequests /\ \E b \in SeqBodies : AddNewBook(b)
    \/ clock <= MaxSeqRequests /\ \E i \in Ids, b \in SeqBodies : UpdateBook(i, b)
    \/ clock <= MaxSeqRequests /\ \E i \in Ids : DeleteBook(i)
    \/ Respond

SpecSeq == Init /\ [][NextSeq]_vars

\* --------------------------------- durable variant, requests side by side
\* The payloads of the statement-level specification: a create both accepted
\* and rejected, an update with and without a recognized field.
ConnPayloads ==
    [title : {Str(<<SP, "a">>), Absent}, author : {Str(<<"b">>), Absent},
     status : {Str("bogus"), Absent}, rating : {Absent},
     notes : {Str(<<"n", SP>>), Absent}, extra : {Num(1), Absent}]

ConnBodies == Bodies(ConnPayloads)

\* Ids a path may name in the statement-level specification.
ConnIds == 1..books_id_seq

\* The in-memory variant and the one-at-a-time bookkeeping stand still.
ConnFrame ==
    UNCHANGED <<books_storage, next_book_id, req, mem_resp, db_resp,
                mem_issued, db_issued, mem_deleted, db_deleted, mem_threads>>

\* Thread t takes up a request and runs a handler that has one statement.
ConnHandled(t, op, book_id, at, out) ==
    /\ db_threads[t].pc = "idle"
    /\ clock' = clock + 1
    /\ db_books' = out.db_books
    /\ books_id_seq' = out.books_id_seq
    /\ db_connections' = db_connections + out.unclosed
    /\ db_threads' = [db_threads EXCEPT ![t] =
            [pc |-> "done", op |-> op, id |-> book_id, body |-> Null,
             book |-> Null, resp |-> out.resp,
             fault |-> IF out.hit THEN at ELSE "none",
             stored |-> db_find_book_by_id(db_books, book_id).found, write |-> out.write,
             unclosed |-> out.unclosed]]
    /\ ConnFrame

ConnHealthCheck(t, fault) ==
    ConnHandled(t, "health", 0, "statement",
                conn_health_check(db_books, books_id_seq, fault))

ConnGetAllBooks(t, fault) ==
    ConnHandled(t, "list", 0, "statement",
                conn_get_all_books(db_books, books_id_seq, fault))

ConnGetBookById(t, book_id, fault) ==
    ConnHandled(t, "get", book_id, "lookup",
                conn_get_book_by_id(db_books, books_id_seq, book_id, fault))

ConnAddNewBook(t, body, fault) ==
    ConnHandled(t, "create", 0, "statement",
                conn_add_new_book(db_books, books_id_seq, body, clock, fault))

\* Thread t takes up an update or a delete and runs it up to its write.
ConnLookedUp(t, op, book_id, body, out) ==
    /\ db_threads[t].pc = "idle"
    /\ clock' = clock + 1
    /\ db_connections' = db_connections + out.unclosed
    /\ db_threads' = [db_threads EXCEPT ![t] =
            [pc |-> out.pc, op |-> op, id |-> book_id,
             body |-> IF out.pc = "done" THEN Null ELSE body,
             book |-> out.book, resp |-> out.resp,
             fault |-> IF out.hit THEN "lookup" ELSE "none",
             stored |-> db_find_book_by_id(db_books, book_id).found, write |-> "none",
             unclosed |-> out.unclosed]]
    /\ UNCHANGED <<db_books, books_id_seq>>
    /\ ConnFrame

\* Thread t runs the write of its update or delete and has its response.
ConnWritten(t, out) ==
    /\ db_books' = out.db_books
    /\ books_id_seq' = out.books_id_seq
    /\ db_connections' = db_connections + out.unclosed
    /\ db_threads' = [db_threads EXCEPT ![t] =
            [@ EXCEPT !.pc = "done", !.body = Null, !.resp = out.resp,
                      !.fault = IF out.hit THEN "statement" ELSE "none",
                      !.write = out.write, !.unclosed = out.unclosed]]
    /\ UNCHANGED clock
    /\ ConnFrame

ConnUpdateLookup(t, book_id, body, fault) ==
    ConnLookedUp(t, "update", book_id, body,
                 conn_update_book_lookup(db_books, book_id, body, fault))

ConnUpdateWrite(t, fault) ==
    /\ db_threads[t].pc = "update"
    /\ ConnWritten(t, conn_update_book_write(db_books, books_id_seq,
                          db_threads[t].id, db_threads[t].body.data, clock, fault))

ConnDeleteLookup(t, book_id, fault) ==
    ConnLookedUp(t, "delete", book_id, Null,
                 conn_delete_book_lookup(db_books, book_id, fault))

ConnDeleteWrite(t, fault) ==
    /\ db_threads[t].pc = "delete"
    /\ ConnWritten(t, conn_delete_book_write(db_books, books_id_seq,
                          db_threads[t].id, db_threads[t].book, fault))

\* The handler of thread t returns; the thread is free for the next request.
ConnReturn(t) ==
    /\ db_threads[t].pc = "done"
    /\ db_threads' = [db_threads EXCEPT ![t] = DbIdle]
    /\ UNCHANGED <<db_books, books_id_seq, clock, db_connections>>
    /\ ConnFrame

\* The durable variant alone, requests handled at the same time, with faults.
NextConn ==
    \/ clock <= MaxConnRequests
        /\ \E t \in Threads, f \in Faults : ConnHealthCheck(t, f)
    \/ clock <= MaxConnRequests
        /\ \E t \in Threads, f \in Faults : ConnGetAllBooks(t, f)
    \/ clock <= MaxConnRequests
        /\ \E t \in Threads, i \in ConnIds, f \in Faults : ConnGetBookById(t, i, f)
    \/ clock <= MaxConnRequests
        /\ \E t \in Threads, b \in ConnBodies, f \in Faults : ConnAddNewBook(t, b, f)
    \/ clock <= MaxConnRequests
        /\ \E t \in Threads, i \in ConnIds, b \in ConnBodies, f \in Faults :
                ConnUpdateLookup(t, i, b, f)
    \/ clock <= MaxConnRequests
        /\ \E t \in Threads, i \in ConnIds, f \in Faults : ConnDeleteLookup(t, i, f)
    \/ \E t \in Threads, f \in Faults : ConnUpdateWrite(t, f)
    \/ \E t \in Threads, f \in Faults : ConnDeleteWrite(t, f)
    \/ \E t \in Threads : ConnReturn(t)

SpecConn == Init /\ [][NextConn]_vars

\* ------------------------------- in-memory variant, creates side by side
\* add_new_book cut where it touches the module globals: new_book is built
\* (next_book_id is read), new_book is appended, and next_book_id += 1, which
\* is a read of the global and then a write of it.  Threads switch between
\* any two of these.

\* The durable variant and the one-at-a-time bookkeeping stand still.
ThreadFrame ==
    UNCHANGED <<db_books, books_id_seq, req, mem_resp, db_resp, db_issued,
                mem_deleted, db_deleted, db_threads, db_connections>>

\* Thread t parses and validates the body and builds new_book, or answers 400.
CreateBuild(t, body) ==
    LET out == mem_add_new_book(books_storage, next_book_id, body, clock) IN
    /\ mem_threads[t].pc = "idle"
    /\ clock' = clock + 1
    /\ mem_threads' = [mem_threads EXCEPT ![t] =
            IF out.resp.status = 201
            THEN [pc |-> "built", new_book |-> out.resp.books[1], read |-> 0,
                  resp |-> NoResponse]
            ELSE [pc |-> "done", new_book |-> Null, read |-> 0, resp |-> out.resp]]
    /\ UNCHANGED <<books_storage, next_book_id, mem_issued>>
    /\ ThreadFrame

\* books_storage.append(new_book)
CreateAppend(t) ==
    /\ mem_threads[t].pc = "built"
    /\ books_storage' = Append(books_storage, mem_threads[t].new_book)
    /\ mem_threads' = [mem_threads EXCEPT ![t].pc = "appended"]
    /\ UNCHANGED <<next_book_id, clock, mem_issued>>
    /\ ThreadFrame

\* next_book_id += 1, the read
CreateReadId(t) ==
    /\ mem_threads[t].pc = "appended"
    /\ mem_threads' = [mem_threads EXCEPT ![t].pc = "read",
                                          ![t].read = next_book_id]
    /\ UNCHANGED <<books_storage, next_book_id, clock, mem_issued>>
    /\ ThreadFrame

\* next_book_id += 1, the write; the handler then has its 201 response.
CreateWriteId(t) ==
    /\ mem_threads[t].pc = "read"
    /\ next_book_id' = mem_next_id(mem_threads[t].read)
    /\ mem_threads' = [mem_threads EXCEPT
            ![t] = [pc |-> "done", new_book |-> @.new_book, read |-> 0,
                    resp |-> Response(201, "", <<@.new_book>>, 0)]]
    /\ mem_issued' = Append(mem_issued, mem_threads[t].new_book.id)
    /\ UNCHANGED <<books_storage, clock>>
    /\ ThreadFrame

\* The handler of thread t returns; the thread is free for the next request.
CreateReturn(t) ==
    /\ mem_threads[t].pc = "done"
    /\ mem_threads' = [mem_threads EXCEPT ![t] = MemIdle]
    /\ UNCHANGED <<books_storage, next_book_id, clock, mem_issued>>
    /\ ThreadFrame

\* The in-memory variant alone, creates handled at the same time.
NextThreads ==
    \/ clock <= MaxThreadRequests
        /\ \E t \in Threads, b \in SeqBodies : CreateBuild(t, b)
    \/ \E t \in Threads : CreateAppend(t)
    \/ \E t \in Threads : CreateReadId(t)
    \/ \E t \in Threads : CreateWriteId(t)
    \/ \E t \in Threads : CreateReturn(t)

SpecThreads == Init /\ [][NextThreads]_vars

\* ------------------------------------------------------------------ claims
Pending == req /= NoRequest

InList(storage, book_id) == \E i \in 1..Len(storage) : storage[i].id = book_id
InRows(rows, book_id) == \E r \in rows : r.id = book_id

MemStored(book_id) == InList(books_storage, book_id)
DbStored(book_id) == InRows(db_books, book_id)

DbBook(book_id) == CHOOSE r \in db_books : r.id = book_id

NoRepeats(ids) ==
    \A i, j \in 1..Len(ids) : i /= j => ids[i] /= ids[j]

\* C1: in both variants every successful create returns an id that differs
\* from the id returned by every earlier successful create, deleted books'
\* ids included.
C1_IdsNeverReused == NoRepeats(mem_issued) /\ NoRepeats(db_issued)

\* A create that succeeds in both variants after an earlier book was deleted.
C1_Witness ==
    /\ req.op = "create"
    /\ mem_resp.status = 201 /\ db_resp.status = 201
    /\ Len(mem_issued) >= 2 /\ Len(db_issued) >= 2
    /\ mem_deleted /= {} /\ db_deleted /= {}

NewestFirst(books) ==
    \A i, j \in 1..Len(books) : i < j => books[i].date_added > books[j].date_added

\* C2: in both variants GET /books lists the stored books newest first: a
\* book created later comes before a book created earlier.
C2_ListNewestFirst ==
    req.op = "list" => NewestFirst(mem_resp.books) /\ NewestFirst(db_resp.books)

\* The part of C2 the durable variant's ORDER BY gives.
C2_DbListNewestFirst ==
    req.op = "list" =>
        /\ NewestFirst(db_resp.books)
        /\ {db_resp.books[i] : i \in 1..Len(db_resp.books)} = db_books
        /\ Len(db_resp.books) = Cardinality(db_books)

\* What a successful update with payload data may change in old, giving new.
UpdateFrame(old, new, data, now) ==
    /\ new.id = old.id
    /\ new.date_added = old.date_added
    /\ \A f \in Fields : ~has(data, f) => new[f] = old[f]
    /\ new.date_updated = now

\* C3: in both variants a successful update with payload P leaves the book's
\* id, its date_added and every field absent from P unchanged, leaves every
\* other stored book unchanged, and sets date_updated to the current time.
C3_UpdateChangesOnlyPayloadFields ==
    [][(req'.op = "update" /\ mem_resp'.status = 200 =>
            LET i == mem_find_book_by_id(books_storage, req'.id) IN
            /\ i /= 0
            /\ Len(books_storage') = Len(books_storage)
            /\ \A j \in 1..Len(books_storage) :
                    j /= i => books_storage'[j] = books_storage[j]
            /\ UpdateFrame(books_storage[i], books_storage'[i],
                           req'.body.data, clock)
            /\ mem_resp'.books = <<books_storage'[i]>>)
       /\ (req'.op = "update" /\ db_resp'.status = 200 =>
            /\ DbStored(req'.id)
            /\ db_resp'.books[1] \in db_books'
            /\ db_books' \ {db_resp'.books[1]} = db_books \ {DbBook(req'.id)}
            /\ UpdateFrame(DbBook(req'.id), db_resp'.books[1],
                           req'.body.data, clock))]_vars

\* An update of one of two stored books, successful in both variants, whose
\* payload names some fields and omits others, later than the book's creation.
C3_Witness ==
    /\ req.op = "update"
    /\ mem_resp.status = 200 /\ db_resp.status = 200
    /\ Len(books_storage) >= 2 /\ Cardinality(db_books) >= 2
    /\ has(req.body.data, "notes") /\ ~has(req.body.data, "title")
    /\ ~has(req.body.data, "rating")
    /\ mem_resp.books[1].date_updated > mem_resp.books[1].date_added
    /\ db_resp.books[1].date_updated > db_resp.books[1].date_added

\* C4: in both variants an update of an id that is not stored answers 404
\* whatever the body (malformed, empty, failing validation), never 400, and
\* leaves the stored collection unchanged.
C4_UpdateMissingIdIsNotFound ==
    [][(req'.op = "update" /\ ~MemStored(req'.id) =>
            /\ mem_resp'.status = 404
            /\ books_storage' = books_storage
            /\ next_book_id' = next_book_id)
       /\ (req'.op = "update" /\ ~DbStored(req'.id) =>
            /\ db_resp'.status = 404
            /\ db_books' = db_books
            /\ books_id_seq' = books_id_seq)]_vars

\* Books are stored, and an update naming an id stored in neither variant
\* carries a payload that fails validation.
C4_Witness ==
    /\ req.op = "update"
    /\ ~MemStored(req.id) /\ ~DbStored(req.id)
    /\ books_storage /= <<>> /\ db_books /= {}
    /\ req.body.ok
    /\ req.body.data.status = Str("bogus")
    /\ req.body.data.rating = Num(600)
    /\ mem_resp.status = 404 /\ db_resp.status = 404

\* C5: in both variants a delete of a stored id removes exactly that book and
\* answers with the record as stored before; from then on, whatever requests
\* follow, a get or a delete of that id answers 404.
C5_DeleteRemovesForGood ==
    [][(req'.op = "delete" /\ MemStored(req'.id) =>
            LET i == mem_find_book_by_id(books_storage, req'.id) IN
            /\ mem_resp'.status = 200
            /\ mem_resp'.books = <<books_storage[i]>>
            /\ books_storage' = SubSeq(books_storage, 1, i - 1)
                                  \o SubSeq(books_storage, i + 1, Len(books_storage)))
       /\ (req'.op = "delete" /\ DbStored(req'.id) =>
            /\ db_resp'.status = 200
            /\ db_resp'.books = <<DbBook(req'.id)>>
            /\ db_books' = db_books \ {DbBook(req'.id)})
       /\ (req'.op \in {"get", "delete"} /\ req'.id \in mem_deleted =>
            mem_resp'.status = 404 /\ ~InList(books_storage', req'.id))
       /\ (req'.op \in {"get", "delete"} /\ req'.id \in db_deleted =>
            db_resp'.status = 404 /\ ~InRows(db_books', req'.id))]_vars

\* A second delete of an id deleted earlier, with another book created since.
C5_Witness ==
    /\ req.op = "delete"
    /\ req.id \in mem_deleted /\ req.id \in db_deleted
    /\ mem_resp.status = 404 /\ db_resp.status = 404
    /\ \E i \in 1..Len(books_storage) : books_storage[i].id > req.id
    /\ \E r \in db_books : r.id > req.id

ValidStored(book) ==
    /\ book.status \in valid_statuses
    /\ \/ book.rating = Null
       \/ /\ book.rating.k = "num"
          /\ book.rating.n >= RatingMin
          /\ book.rating.n <= RatingMax

\* C6: in both variants every stored book has one of the three statuses and a
\* rating that is null or a number in [1,5], whatever creates and updates
\* were accepted or rejected.
C6_StoredStatusAndRatingValid ==
    /\ \A i \in 1..Len(books_storage) : ValidStored(books_storage[i])
    /\ \A r \in db_books : ValidStored(r)

\* The part of C6 the durable variant keeps.
C6_DbStoredStatusAndRatingValid == \A r \in db_books : ValidStored(r)

\* A parsed, non-empty payload with none of the five book fields.
NoRecognizedField(body) ==
    /\ body.ok
    /\ ~is_empty(body.data)
    /\ \A f \in Fields : ~has(body.data, f)

\* C7: in both variants an update of a stored book whose payload is non-empty
\* but names no recognized field answers 400 and writes nothing, date_updated
\* included.
C7_NoValidFieldsIsRejected ==
    [][(req'.op = "update" /\ NoRecognizedField(req'.body) /\ MemStored(req'.id) =>
            mem_resp'.status = 400 /\ books_storage' = books_storage)
       /\ (req'.op = "update" /\ NoRecognizedField(req'.body) /\ DbStored(req'.id) =>
            db_resp'.status = 400 /\ db_books' = db_books)]_vars

\* The part of C7 the durable variant keeps.
C7_DbNoValidFieldsIsRejected ==
    [][req'.op = "update" /\ NoRecognizedField(req'.body) /\ DbStored(req'.id) =>
            db_resp'.status = 400 /\ db_books' = db_books]_vars

\* Field f of the payload is missing, or empty once stripped.
Blank(data, f) == ~has(data, f) \/ ~truthy(strip(data[f]))

NonBlankStored(book) == truthy(strip(book.title)) /\ truthy(strip(book.author))

\* C8: in both variants a create whose title or author is missing, empty or
\* whitespace only answers 400 and stores nothing, so every stored book's
\* title and author are non-empty once stripped.
C8_BlankTitleOrAuthorNeverStored ==
    /\ (/\ req.op = "create"
        /\ req.body.ok
        /\ Blank(req.body.data, "title") \/ Blank(req.body.data, "author")
        => mem_resp.status = 400 /\ db_resp.status = 400)
    /\ \A i \in 1..Len(books_storage) : NonBlankStored(books_storage[i])
    /\ \A r \in db_books : NonBlankStored(r)

\* The part of C8 the durable variant keeps.
C8_DbBlankTitleOrAuthorNeverStored ==
    /\ (/\ req.op = "create"
        /\ req.body.ok
        /\ Blank(req.body.data, "title") \/ Blank(req.body.data, "author")
        => db_resp.status = 400)
    /\ \A r \in db_books : NonBlankStored(r)

\* The payload names title or author with a value that is empty once stripped.
BlankTextField(body) ==
    /\ body.ok
    /\ \E f \in {"title", "author"} :
            has(body.data, f) /\ ~truthy(strip(body.data[f]))

\* C9: in both variants an update of a stored book whose payload gives title
\* or author a value that is empty once stripped answers 400 and applies none
\* of the payload's other fields.
C9_BlankTextUpdateIsRejected ==
    [][(req'.op = "update" /\ BlankTextField(req'.body) /\ MemStored(req'.id) =>
            mem_resp'.status = 400 /\ books_storage' = books_storage)
       /\ (req'.op = "update" /\ BlankTextField(req'.body) /\ DbStored(req'.id) =>
            db_resp'.status = 400 /\ db_books' = db_books)]_vars

StatusClass(resp) ==
    CASE resp.status \in {200, 201} -> "success"
      [] resp.status = 400 -> "client error"
      [] resp.status = 404 -> "not found"
      [] OTHER -> "server error"

\* C10: on the same request sequence with the same clock the two variants
\* answer every request with the same status class and the same book records
\* in the same order.
C10_VariantsAnswerAlike ==
    Pending =>
        /\ StatusClass(mem_resp) = StatusClass(db_resp)
        /\ mem_resp.books = db_resp.books
        /\ mem_resp.total = db_resp.total

\* C11: in the durable variant, when the backend fails (connect or query
\* error) while a get, update or delete by id is handled, the response is the
\* internal-error response 500, and a book that is stored is never answered
\* with 404.
C11_BackendFailureIsInternalError ==
    \A t \in Threads :
        LET h == db_threads[t] IN
        h.pc = "done" /\ h.op \in {"get", "update", "delete"} =>
            /\ h.fault /= "none" => h.resp.status = 500
            /\ h.stored => h.resp.status /= 404

\* The part of C11 the handlers' own except blocks give: a fault in the
\* statement a handler runs on its own connection is answered with 500.
C11_StatementFailureIsInternalError ==
    \A t \in Threads :
        LET h == db_threads[t] IN
        h.pc = "done" /\ h.fault = "statement" => h.resp.status = 500

Quiet == \A t \in Threads : mem_threads[t].pc \in {"idle", "done"}

\* C12: in the in-memory variant, when creates are handled at the same time
\* (reading next_book_id, appending, incrementing interleaved), every create
\* receives a distinct id, every created book is in storage afterwards, and
\* next_book_id is greater than every stored id.
C12_ConcurrentCreatesKeepIdsDistinct ==
    /\ NoRepeats(mem_issued)
    /\ Quiet =>
        /\ Len(books_storage) = Len(mem_issued)
        /\ \A t \in Threads :
                mem_threads[t].pc = "done" /\ mem_threads[t].resp.status = 201 =>
                    \E i \in 1..Len(books_storage) :
                        books_storage[i] = mem_threads[t].resp.books[1]
        /\ \A i \in 1..Len(books_storage) : books_storage[i].id < next_book_id

\* The part of C12 that list.append gives: every created book is in storage.
C12_CreatedBooksAreStored ==
    Quiet =>
        /\ Len(books_storage) = Len(mem_issued)
        /\ \A t \in Threads :
                mem_threads[t].pc = "done" /\ mem_threads[t].resp.status = 201 =>
                    \E i \in 1..Len(books_storage) :
                        books_storage[i] = mem_threads[t].resp.books[1]

\* C13: in the durable variant every connection opened while a request is
\* handled has been closed when the handler returns its response, on every
\* exit path (success, validation error, not-found, a statement that raises),
\* so that no connection is open once all requests have completed.
C13_ConnectionsClosedOnEveryExit ==
    /\ \A t \in Threads : db_threads[t].pc = "done" => db_threads[t].unclosed = 0
    /\ (\A t \in Threads : db_threads[t].pc = "idle") => db_connections = 0

\* The part of C13 the handlers keep: on the exit paths where no statement
\* raises, every connection opened has been closed.
C13_ConnectionsClosedWithoutFault ==
    \A t \in Threads :
        db_threads[t].pc = "done" /\ db_threads[t].fault = "none" =>
            db_threads[t].unclosed = 0

\* C14: in the durable variant an update whose id is gone when its UPDATE
\* statement runs (a delete of the same id came between the lookup and the
\* write) answers 404, not success and not an internal error, and the deleted
\* book is not recreated.
C14_UpdateOfDeletedIdIsNotFound ==
    \A t \in Threads :
        LET h == db_threads[t] IN
        h.pc = "done" /\ h.op = "update" /\ h.write = "miss" =>
            /\ h.resp.status = 404
            /\ ~InRows(db_books, h.id)

\* The part of C14 the UPDATE statement gives: the deleted book stays deleted.
C14_DeletedBookIsNotRecreated ==
    \A t \in Threads :
        LET h == db_threads[t] IN
        h.pc = "done" /\ h.op = "update" /\ h.write = "miss" =>
            ~InRows(db_books, h.id)

====
